---- MODULE Spec2Model ----
(***************************************************************************)
(* State machine of the hledger dashboard's session state                  *)
(* (hledger_reflex_app/state.py, ipay_app/ipay_app.py) and of the HTTP     *)
(* client it loads from (hledger_api.py).  Strings are TLA+ strings, and   *)
(* the Python string operations used by the code (slicing, lower, strip,   *)
(* split, join, startswith, int) are computed character by character.      *)
(***************************************************************************)
EXTENDS Integers, Sequences, FiniteSets, TLC

VARIABLES
  app,                \* which copy of the application runs this session
  transactions,       \* State.transactions
  accountnames,       \* State.accountnames
  loading,            \* State.loading
  selected_month,     \* State.selected_month
  search_description, \* State.search_description
  search_account,     \* State.search_account
  nested_level,       \* State.nested_level
  sort_by,            \* State.sort_by
  pc,                 \* position of the running event handler ("idle": none)
  client,             \* HLedgerClient._client of the handler's client
  raw_txns,           \* local raw_txns of the running load_transactions
  names,              \* local names of the running load_accountnames
  outcome,            \* what the try block of the last load caught ("" before any load)
  raised,             \* exception that left the last event handler ("" if none)
  requests,           \* paths of the GET requests issued so far
  ledger              \* the journal held by the ledger API server

vars == <<app, transactions, accountnames, loading, selected_month,
          search_description, search_account, nested_level, sort_by,
          pc, client, raw_txns, names, outcome, raised, requests, ledger>>

(***************************************************************************)
(* Python string operations                                                *)
(***************************************************************************)
Min(a, b) == IF a < b THEN a ELSE b

Max(a, b) == IF a > b THEN a ELSE b

\* s[a:b] for 0 <= a, 0 <= b
Slice(s, a, b) ==
  LET lo == Min(a, Len(s))
      hi == Min(b, Len(s))
  IN IF lo >= hi THEN "" ELSE SubSeq(s, lo + 1, hi)

CharAt(s, i) == SubSeq(s, i, i)

LowerChar(c) ==
  CASE c = "A" -> "a" [] c = "B" -> "b" [] c = "C" -> "c" [] c = "D" -> "d"
    [] c = "E" -> "e" [] c = "F" -> "f" [] c = "G" -> "g" [] c = "H" -> "h"
    [] c = "I" -> "i" [] c = "J" -> "j" [] c = "K" -> "k" [] c = "L" -> "l"
    [] c = "M" -> "m" [] c = "N" -> "n" [] c = "O" -> "o" [] c = "P" -> "p"
    [] c = "Q" -> "q" [] c = "R" -> "r" [] c = "S" -> "s" [] c = "T" -> "t"
    [] c = "U" -> "u" [] c = "V" -> "v" [] c = "W" -> "w" [] c = "X" -> "x"
    [] c = "Y" -> "y" [] c = "Z" -> "z" [] OTHER -> c

RECURSIVE Lower(_)
Lower(s) == IF s = "" THEN "" ELSE LowerChar(Head(s)) \o Lower(Tail(s))

StartsWith(s, prefix) ==
  Len(prefix) <= Len(s) /\ Slice(s, 0, Len(prefix)) = prefix

\* sub in s
Contains(s, sub) ==
  \E i \in 0..Len(s) : i + Len(sub) <= Len(s) /\ Slice(s, i, i + Len(sub)) = sub

RECURSIVE LStrip(_)
LStrip(s) == IF s # "" /\ Head(s) = " " THEN LStrip(Tail(s)) ELSE s

RECURSIVE RStrip(_)
RStrip(s) ==
  IF s # "" /\ CharAt(s, Len(s)) = " " THEN RStrip(Slice(s, 0, Len(s) - 1)) ELSE s

Strip(s) == RStrip(LStrip(s))

\* s.split(":"): cur is the segment being read
RECURSIVE SplitFrom(_, _)
SplitFrom(s, cur) ==
  IF s = "" THEN <<cur>>
  ELSE IF Head(s) = ":" THEN <<cur>> \o SplitFrom(Tail(s), "")
  ELSE SplitFrom(Tail(s), cur \o Head(s))

Split(s) == SplitFrom(s, "")

\* ":".join(parts)
RECURSIVE Join(_)
Join(parts) ==
  IF Len(parts) = 0 THEN ""
  ELSE IF Len(parts) = 1 THEN parts[1]
  ELSE parts[1] \o ":" \o Join(Tail(parts))

\* ", ".join(parts)
RECURSIVE JoinComma(_)
JoinComma(parts) ==
  IF Len(parts) = 0 THEN ""
  ELSE IF Len(parts) = 1 THEN parts[1]
  ELSE parts[1] \o ", " \o JoinComma(Tail(parts))

IsDigit(c) == c \in {"0", "1", "2", "3", "4", "5", "6", "7", "8", "9"}

DigitVal(c) ==
  CASE c = "0" -> 0 [] c = "1" -> 1 [] c = "2" -> 2 [] c = "3" -> 3
    [] c = "4" -> 4 [] c = "5" -> 5 [] c = "6" -> 6 [] c = "7" -> 7
    [] c = "8" -> 8 [] c = "9" -> 9

AllDigits(s) == s # "" /\ \A i \in 1..Len(s) : IsDigit(CharAt(s, i))

RECURSIVE DigitsVal(_, _)
DigitsVal(s, acc) ==
  IF s = "" THEN acc ELSE DigitsVal(Tail(s), 10 * acc + DigitVal(Head(s)))

\* the digits of an int literal after its sign
int_digits(negative, digits) ==
  IF AllDigits(digits)
  THEN [exc |-> "",
        val |-> IF negative THEN 0 - DigitsVal(digits, 0) ELSE DigitsVal(digits, 0)]
  ELSE [exc |-> "ValueError", val |-> 0]

\* an int literal without surrounding blanks: one optional sign, then digits
int_stripped(t) ==
  IF t # "" /\ Head(t) \in {"+", "-"}
  THEN int_digits(Head(t) = "-", Tail(t))
  ELSE int_digits(FALSE, t)

\* int(s) of a str: surrounding blanks and one sign are accepted,
\* anything else is a ValueError
int_str(s) == int_stripped(Strip(s))

\* f"{n:,}": decimal digits in groups of three
RECURSIVE GroupDigits(_)
GroupDigits(d) ==
  IF Len(d) <= 3 THEN d
  ELSE GroupDigits(Slice(d, 0, Len(d) - 3)) \o "," \o Slice(d, Len(d) - 3, Len(d))

FormatThousands(n) ==
  IF n < 0 THEN "-" \o GroupDigits(ToString(0 - n)) ELSE GroupDigits(ToString(n))

(***************************************************************************)
(* JSON values of the wire format.  aquantity is typed Any by the client's *)
(* schema, so it is carried as a tagged value; numbers are kept in tenths  *)
(* so that fractional quantities exist.                                    *)
(***************************************************************************)
Null == [t |-> "null"]

Num(x10) == [t |-> "num", tenths |-> x10]

Str(s) == [t |-> "str", s |-> s]

EmptyDict == [t |-> "obj", d |-> [k \in {} |-> Null]]

Quantity(x10) == [t |-> "obj", d |-> [k \in {"floatingPoint"} |-> Num(x10)]]

QuantityRaw(v) == [t |-> "obj", d |-> [k \in {"floatingPoint"} |-> v]]

List(items) == [t |-> "list", items |-> items]

Returned(v) == [exc |-> "", val |-> v]

Raised(e) == [exc |-> e, val |-> Null]

\* v.get(key) of an arbitrary JSON value: only a dict has .get
dict_get(v, key) ==
  IF v.t = "obj"
  THEN Returned(IF key \in DOMAIN v.d THEN v.d[key] ELSE Null)
  ELSE Raised("AttributeError")

\* int(x) of a float or int truncates toward zero
TruncTenths(x10) == IF x10 >= 0 THEN x10 \div 10 ELSE 0 - ((0 - x10) \div 10)

\* the outcome of a call as a value or an exception
outcome_of(r) == IF r.exc = "" THEN Returned(r.val) ELSE Raised(r.exc)

\* int(v) of an arbitrary JSON value
py_int(v) ==
  CASE v.t = "num" -> Returned(TruncTenths(v.tenths))
    [] v.t = "str" -> outcome_of(int_str(v.s))
    [] OTHER -> Raised("TypeError")

\* x or "" of an Optional[str]
or_empty(v) == IF v.t = "str" THEN v.s ELSE ""

\* x or [] of an Optional[list]
or_list(v) == IF v.t = "list" THEN v.items ELSE <<>>

(***************************************************************************)
(* hledger_api.py: schema validation and dump of a /transactions body      *)
(***************************************************************************)
\* date.fromisoformat accepts YYYY-MM-DD with a month 01..12 and a day 01..31
ParseDate(s) ==
  IF /\ Len(s) = 10
     /\ CharAt(s, 5) = "-" /\ CharAt(s, 8) = "-"
     /\ AllDigits(Slice(s, 0, 4)) /\ AllDigits(Slice(s, 5, 7))
     /\ AllDigits(Slice(s, 8, 10))
     /\ DigitsVal(Slice(s, 5, 7), 0) \in 1..12
     /\ DigitsVal(Slice(s, 8, 10), 0) \in 1..31
  THEN [ok |-> TRUE, y |-> DigitsVal(Slice(s, 0, 4), 0),
        m |-> DigitsVal(Slice(s, 5, 7), 0), d |-> DigitsVal(Slice(s, 8, 10), 0)]
  ELSE [ok |-> FALSE, y |-> 0, m |-> 0, d |-> 0]

RECURSIVE ZeroPad(_, _)
ZeroPad(s, width) == IF Len(s) >= width THEN s ELSE ZeroPad("0" \o s, width)

\* date.isoformat(), what model_dump(mode="json") emits for a date
IsoFormat(dt) ==
  ZeroPad(ToString(dt.y), 4) \o "-" \o ZeroPad(ToString(dt.m), 2)
    \o "-" \o ZeroPad(ToString(dt.d), 2)

ValidPosting(p) == "paccount" \in DOMAIN p

ValidTransaction(t) ==
  /\ {"tdate", "tdescription", "tindex", "tpostings"} \subseteq DOMAIN t
  /\ ParseDate(t.tdate).ok
  /\ \A i \in 1..Len(t.tpostings) : ValidPosting(t.tpostings[i])

\* Amount: every field is optional and defaults to None
DumpAmount(a) ==
  [acommodity |-> IF "acommodity" \in DOMAIN a THEN a.acommodity ELSE Null,
   aquantity |-> IF "aquantity" \in DOMAIN a THEN a.aquantity ELSE Null]

DumpPosting(p) ==
  [paccount |-> p.paccount,
   pamount |-> IF "pamount" \in DOMAIN p /\ p.pamount.t = "list"
               THEN List([i \in 1..Len(p.pamount.items) |->
                            DumpAmount(p.pamount.items[i])])
               ELSE Null]

DumpTransaction(t) ==
  [tindex |-> t.tindex,
   tdate |-> IsoFormat(ParseDate(t.tdate)),
   tdescription |-> t.tdescription,
   tpostings |-> [i \in 1..Len(t.tpostings) |-> DumpPosting(t.tpostings[i])]]

\* Transactions.model_validate(data).model_dump(mode="json")
Transactions_validate_dump(data) ==
  IF data.t = "list" /\ \A i \in 1..Len(data.items) : ValidTransaction(data.items[i])
  THEN Returned([i \in 1..Len(data.items) |-> DumpTransaction(data.items[i])])
  ELSE Raised("ValidationError")

\* AccountNames.model_validate(data).model_dump(mode="json")
AccountNames_validate_dump(data) ==
  IF data.t = "list" /\ \A i \in 1..Len(data.items) : data.items[i].t = "str"
  THEN Returned([i \in 1..Len(data.items) |-> data.items[i].s])
  ELSE Raised("ValidationError")

(***************************************************************************)
(* The ledger API server (external): a journal that grows by appending,    *)
(* and the ways a GET can end.                                             *)
(***************************************************************************)
MaxJournal == 3

Amt(x10, comm) == [acommodity |-> Str(comm), aquantity |-> Quantity(x10)]

Post(account, amounts) == [paccount |-> account, pamount |-> List(amounts)]

Txn(index, date, description, postings) ==
  [tindex |-> index, tdate |-> date, tdescription |-> description,
   tpostings |-> postings]

Journal ==
  << Txn(1, "2025-01-15", "Opening balance",
         << Post("Asset:Bank:Checking", <<Amt(1000, "USD")>>),
            Post("Asset:Cash", <<[aquantity |-> Quantity(200)]>>),
            Post("Equity:Opening", <<Amt(-1200, "USD")>>) >>),
     Txn(2, "2025-02-10", "Food market",
         << Post("Expense:Food:Groceries", <<Amt(305, "USD"), Amt(12345678, "VND")>>),
            Post("asset:cash", <<Amt(-305, "USD")>>) >>),
     Txn(2, "2025-01-20", "Salary",
         << Post("Revenue:Salary",
                 << [acommodity |-> Str("USD"), aquantity |-> Null],
                    [acommodity |-> Str("VND"), aquantity |-> EmptyDict],
                    Amt(-50000, "VND") >>),
            [paccount |-> "Asset:Bank:Checking"] >>),
     Txn(4, "2024-02-05", "Rent",
         << Post("Expense:Rent", <<Amt(9000, "")>>),
            Post("Liability:Card",
                 <<[acommodity |-> Null, aquantity |-> QuantityRaw(Str("abc"))],
                   [acommodity |-> Str("USD"), aquantity |-> Num(-9000)]>>) >>),
     Txn(3, "2025-03-01", "Refund",
         << Post("Expense:Food", <<Amt(-75, "USD")>>),
            Post("Asset:Cash", <<Amt(75, "USD")>>) >>) >>

\* a body that is JSON but is not a list of transactions
ErrorObject == [t |-> "obj", d |-> [k \in {"error"} |-> Str("not found")]]

\* a list whose entry lacks the required tindex, and one with an invalid date
BadEntries ==
  List(<< [tdate |-> "2025-01-15", tdescription |-> "x", tpostings |-> <<>>],
          Txn(7, "2025-13-40", "y", <<>>) >>)

\* how the server answers one GET
Modes == {"up", "refused", "timeout", "http500", "not_json", "not_a_list", "bad_entries"}

Server(mode, journal) == [mode |-> mode, journal |-> journal]

RECURSIVE AccountsOf(_)
AccountsOf(journal) ==
  IF journal = <<>> THEN <<>>
  ELSE [i \in 1..Len(journal[1].tpostings) |-> Str(journal[1].tpostings[i].paccount)]
         \o AccountsOf(Tail(journal))

\* the transactions of the journal that have a posting on account_name
RECURSIVE AccountTransactionsOf(_, _)
AccountTransactionsOf(journal, account_name) ==
  IF journal = <<>> THEN <<>>
  ELSE (IF \E i \in 1..Len(journal[1].tpostings) :
             journal[1].tpostings[i].paccount = account_name
        THEN <<journal[1]>> ELSE <<>>)
         \o AccountTransactionsOf(Tail(journal), account_name)

\* what the server holds at a path: the journal, its account names, or the
\* transactions of one account in the schema of /transactions
ServerData(journal, path) ==
  IF path = "transactions" THEN List(journal)
  ELSE IF path = "accountnames" THEN List(AccountsOf(journal))
  ELSE List(AccountTransactionsOf(journal, Slice(path, Len("accounttransactions/"), Len(path))))

\* httpx.Client.get against the server: a transport exception, or a
\* response with a status and a body that decodes as JSON or does not
client_get(srv, path) ==
  CASE srv.mode = "refused" -> [exc |-> "ConnectError", status |-> 0, decodes |-> FALSE, data |-> Null]
    [] srv.mode = "timeout" -> [exc |-> "ReadTimeout", status |-> 0, decodes |-> FALSE, data |-> Null]
    [] srv.mode = "http500" -> [exc |-> "", status |-> 500, decodes |-> TRUE, data |-> ErrorObject]
    [] srv.mode = "not_json" -> [exc |-> "", status |-> 200, decodes |-> FALSE, data |-> Null]
    [] srv.mode = "not_a_list" -> [exc |-> "", status |-> 200, decodes |-> TRUE, data |-> ErrorObject]
    [] srv.mode = "bad_entries" -> [exc |-> "", status |-> 200, decodes |-> TRUE,
                                    data |-> IF path = "accountnames"
                                             THEN List(<<Str("Asset"), Num(10)>>)
                                             ELSE BadEntries]
    [] OTHER -> [exc |-> "", status |-> 200, decodes |-> TRUE,
                 data |-> ServerData(srv.journal, path)]

(***************************************************************************)
(* hledger_api.py: HLedgerClient                                           *)
(***************************************************************************)
\* _ensure_client: creates the httpx client when there is none
HLedgerClient_ensure_client(c) == IF c = "None" THEN "open" ELSE c

\* a close that leaves the httpx client in place
HLedgerClient_close_leak(c) == c

\* close: closes the httpx client and forgets it
HLedgerClient_close(c) == IF c # "None" THEN "None" ELSE c

\* _get_json: transport and status errors become HLedgerAPIError, a body
\* that does not decode raises out of resp.json()
HLedgerClient_get_json(srv, path) ==
  LET resp == client_get(srv, path)
  IN IF resp.exc # "" THEN Raised("HLedgerAPIError")
     ELSE IF ~(resp.status >= 200 /\ resp.status <= 299) THEN Raised("HLedgerAPIError")
     ELSE IF ~resp.decodes THEN Raised("JSONDecodeError")
     ELSE Returned(resp.data)

\* get_transactions().model_dump(mode="json")
HLedgerClient_get_transactions(srv) ==
  LET r == HLedgerClient_get_json(srv, "transactions")
  IN IF r.exc # "" THEN r ELSE Transactions_validate_dump(r.val)

\* get_accountnames().model_dump(mode="json")
HLedgerClient_get_accountnames(srv) ==
  LET r == HLedgerClient_get_json(srv, "accountnames")
  IN IF r.exc # "" THEN r ELSE AccountNames_validate_dump(r.val)

\* a validated Transactions model, by its JSON dump
TransactionsModel(root) == [t |-> "Transactions", root |-> root]

\* get_account_transactions after _get_json returned data: the validated
\* model; when validation raises, ipay_app returns data and
\* hledger_reflex_app lets the ValidationError out
get_account_transactions_result(appv, data, v) ==
  IF v.exc = "" THEN Returned(TransactionsModel(v.val))
  ELSE IF appv = "ipay_app" THEN Returned(data)
  ELSE v

\* get_account_transactions(account_name)
HLedgerClient_get_account_transactions(appv, srv, account_name) ==
  LET r == HLedgerClient_get_json(srv, "accounttransactions/" \o account_name)
  IN IF r.exc # "" THEN r
     ELSE get_account_transactions_result(appv, r.val, Transactions_validate_dump(r.val))

(***************************************************************************)
(* state.py / ipay_app.py: State.load_transactions, normalisation          *)
(***************************************************************************)
Apps == {"hledger_reflex_app", "ipay_app"}

\* qty of one raw amount: int(qty_val.get("floatingPoint")); only
\* hledger_reflex_app wraps it in try/except and falls back to 0
int_of_get(g) == IF g.exc # "" THEN g ELSE py_int(g.val)

\* except Exception: qty = 0, which only hledger_reflex_app has
qty_or_zero(appv, r) ==
  IF appv = "hledger_reflex_app" /\ r.exc # "" THEN Returned(0) ELSE r

amount_qty(appv, a) ==
  qty_or_zero(appv, int_of_get(dict_get(a.aquantity, "floatingPoint")))

\* formatted = f"{qty:,}" followed by " <comm>" when comm is not empty
amount_formatted(qty, comm) ==
  IF comm # "" THEN FormatThousands(qty) \o " " \o comm ELSE FormatThousands(qty)

\* commodity: the first non-empty comm of the amounts, "" when there is none
RECURSIVE first_commodity(_)
first_commodity(items) ==
  IF items = <<>> THEN ""
  ELSE IF or_empty(items[1].acommodity) # "" THEN or_empty(items[1].acommodity)
  ELSE first_commodity(Tail(items))

\* the iterations of a loop that raised
raising(rs) == {i \in 1..Len(rs) : rs[i].exc # ""}

\* the exception that leaves a loop: the one of its first raising iteration
first_raised(rs) ==
  Raised(rs[CHOOSE i \in raising(rs) : \A j \in raising(rs) : i <= j].exc)

\* the values of a loop none of whose iterations raised
values_of(rs) == [i \in 1..Len(rs) |-> rs[i].val]

\* the amounts list of one posting
amounts_list_of(items, qtys) ==
  [i \in 1..Len(items) |->
     amount_formatted(qtys[i].val, or_empty(items[i].acommodity))]

\* the quantities that are not 0
RECURSIVE nonzero_values(_)
nonzero_values(xs) ==
  IF xs = <<>> THEN <<>>
  ELSE (IF xs[1] # 0 THEN <<xs[1]>> ELSE <<>>) \o nonzero_values(Tail(xs))

\* a PostingData whose amounts_numeric leaves out the quantities that are 0
posting_data_skip_zero(p, items, qtys, amounts_list) ==
  IF raising(qtys) # {}
  THEN first_raised(qtys)
  ELSE Returned([account |-> p.paccount,
                 amounts |-> amounts_list,
                 amounts_display |-> JoinComma(amounts_list),
                 amounts_numeric |-> nonzero_values(values_of(qtys)),
                 commodity |-> first_commodity(items)])

\* the PostingData dict
posting_data(p, items, qtys, amounts_list) ==
  IF raising(qtys) # {}
  THEN first_raised(qtys)
  ELSE Returned([account |-> p.paccount,
                 amounts |-> amounts_list,
                 amounts_display |-> JoinComma(amounts_list),
                 amounts_numeric |-> values_of(qtys),
                 commodity |-> first_commodity(items)])

\* the loop over the amounts of one posting
posting_amounts(p, items, qtys) ==
  posting_data(p, items, qtys, amounts_list_of(items, qtys))

posting_items(appv, p, items) ==
  posting_amounts(p, items, [i \in 1..Len(items) |-> amount_qty(appv, items[i])])

\* one PostingData from one raw posting
normalize_posting(appv, p) == posting_items(appv, p, or_list(p.pamount))

\* the TransactionData dict
transaction_data(t, ps) ==
  IF raising(ps) # {}
  THEN first_raised(ps)
  ELSE Returned([index |-> t.tindex,
                 date |-> t.tdate,
                 description |-> t.tdescription,
                 postings |-> values_of(ps),
                 posting_count |-> Len(ps)])

\* one TransactionData from one raw transaction
normalize_transaction(appv, t) ==
  transaction_data(t, [i \in 1..Len(t.tpostings) |->
                         normalize_posting(appv, t.tpostings[i])])

\* list.sort(key=index, reverse=True): stable, so entries with equal index
\* keep their relative order
RECURSIVE insert_by_index(_, _)
insert_by_index(sorted, x) ==
  IF sorted = <<>> THEN <<x>>
  ELSE IF sorted[1].index >= x.index
       THEN <<sorted[1]>> \o insert_by_index(Tail(sorted), x)
       ELSE <<x>> \o sorted

\* a sort that leaves the response order
sort_index_none(txs) == txs

RECURSIVE sort_index_reverse(_)
sort_index_reverse(txs) ==
  IF txs = <<>> THEN <<>>
  ELSE insert_by_index(sort_index_reverse(SubSeq(txs, 1, Len(txs) - 1)), txs[Len(txs)])

\* the part of load_transactions after the with block: simplified, sorted
sorted_data(ts) ==
  IF raising(ts) # {}
  THEN first_raised(ts)
  ELSE Returned(sort_index_reverse(values_of(ts)))

\* the loop over the raw transactions, then the sort
simplify(appv, raw) ==
  sorted_data([i \in 1..Len(raw) |-> normalize_transaction(appv, raw[i])])

\* a load that adds the new entries to the ones it holds
tail_outcome_append(s, old_transactions, old_loading) ==
  IF s.exc = ""
  THEN [transactions |-> old_transactions \o s.val, loading |-> FALSE, raised |-> ""]
  ELSE [transactions |-> old_transactions, loading |-> old_loading, raised |-> s.exc]

\* self.transactions = simplified; self.loading = False, which an
\* exception out of the loop never reaches
tail_outcome(s, old_transactions, old_loading) ==
  IF s.exc = ""
  THEN [transactions |-> s.val, loading |-> FALSE, raised |-> ""]
  ELSE [transactions |-> old_transactions, loading |-> old_loading, raised |-> s.exc]

\* a variant that returns early when nothing was fetched
load_transactions_tail_early_return(appv, raw, old_transactions, old_loading) ==
  IF raw = <<>>
  THEN [transactions |-> old_transactions, loading |-> FALSE, raised |-> ""]
  ELSE tail_outcome(simplify(appv, raw), old_transactions, old_loading)

\* the statements of load_transactions after the with block: what they
\* leave in self.transactions and self.loading, and the exception that
\* leaves the handler when normalisation raises
load_transactions_tail(appv, raw, old_transactions, old_loading) ==
  tail_outcome(simplify(appv, raw), old_transactions, old_loading)

(***************************************************************************)
(* state.py / ipay_app.py: balance aggregation and the balance views.      *)
(* The operators take the fields of self they read as parameters.          *)
(***************************************************************************)
\* code points order the characters: blank, comma, minus, digits, colon,
\* upper case, underscore, lower case
AsciiOrder ==
  " ,-0123456789:ABCDEFGHIJKLMNOPQRSTUVWXYZ_abcdefghijklmnopqrstuvwxyz"

Ord(c) == CHOOSE i \in 1..Len(AsciiOrder) : CharAt(AsciiOrder, i) = c

\* a < b for str
RECURSIVE StrLess(_, _)
StrLess(a, b) ==
  IF b = "" THEN FALSE
  ELSE IF a = "" THEN TRUE
  ELSE IF Head(a) = Head(b) THEN StrLess(Tail(a), Tail(b))
  ELSE Ord(Head(a)) < Ord(Head(b))

\* sum(xs)
RECURSIVE sum_list(_)
sum_list(xs) == IF xs = <<>> THEN 0 ELSE xs[1] + sum_list(Tail(xs))

\* reversed(xs)
reversed(xs) == [i \in 1..Len(xs) |-> xs[Len(xs) + 1 - i]]

\* a month test that reads the day, date[8:10]
month_skips_day(tx, selected, apply_month) ==
  apply_month /\ selected # "" /\ ~(Slice(tx.date, 8, 10) = selected)

\* the month test of the filtered loops: date[5:7] == selected_month
month_skips(tx, selected, apply_month) ==
  apply_month /\ selected # "" /\ ~(Slice(tx.date, 5, 7) = selected)

\* a group key that keeps one segment too many
group_key_one_more(account, level) ==
  LET parts == Split(account)
  IN IF level <= Len(parts) THEN Join(SubSeq(parts, 1, Min(level + 1, Len(parts))))
     ELSE account

\* group_key: ":".join(parts[:nested_level]) if nested_level <= len(parts)
\* else the account itself
group_key(account, level) ==
  LET parts == Split(account)
  IN IF level <= Len(parts) THEN Join(SubSeq(parts, 1, Min(level, Len(parts))))
     ELSE account

\* a posting loop body in which every posting with a commodity sets the
\* commodity of its group
aggregate_posting_last_commodity(acc, p, level, root_prefix) ==
  IF ~StartsWith(Lower(p.account), root_prefix) THEN acc
  ELSE LET total == sum_list(p.amounts_numeric)
           key == group_key(p.account, level)
       IN [balances |->
             IF key \in DOMAIN acc.balances
             THEN [acc.balances EXCEPT ![key] = @ + total]
             ELSE acc.balances @@ (key :> total),
           commodities |->
             IF p.commodity # ""
             THEN [k \in DOMAIN acc.commodities \cup {key} |->
                     IF k = key THEN p.commodity ELSE acc.commodities[k]]
             ELSE acc.commodities]

\* a posting loop body that stores the posting's amount instead of adding it
aggregate_posting_overwrite(acc, p, level, root_prefix) ==
  IF ~StartsWith(Lower(p.account), root_prefix) THEN acc
  ELSE LET total == sum_list(p.amounts_numeric)
           key == group_key(p.account, level)
       IN [balances |->
             IF key \in DOMAIN acc.balances
             THEN [acc.balances EXCEPT ![key] = total]
             ELSE acc.balances @@ (key :> total),
           commodities |->
             IF key \notin DOMAIN acc.commodities /\ p.commodity # ""
             THEN acc.commodities @@ (key :> p.commodity)
             ELSE acc.commodities]

\* the body of the posting loop: acc holds balances and commodities
aggregate_posting(acc, p, level, root_prefix) ==
  IF ~StartsWith(Lower(p.account), root_prefix) THEN acc
  ELSE LET total == sum_list(p.amounts_numeric)
           key == group_key(p.account, level)
       IN [balances |->
             IF key \in DOMAIN acc.balances
             THEN [acc.balances EXCEPT ![key] = @ + total]
             ELSE acc.balances @@ (key :> total),
           commodities |->
             IF key \notin DOMAIN acc.commodities /\ p.commodity # ""
             THEN acc.commodities @@ (key :> p.commodity)
             ELSE acc.commodities]

\* a posting loop that stops after the first posting of the transaction
aggregate_postings_first_only(acc, ps, level, root_prefix) ==
  IF ps = <<>> THEN acc
  ELSE aggregate_posting(acc, ps[1], level, root_prefix)

RECURSIVE aggregate_postings(_, _, _, _)
aggregate_postings(acc, ps, level, root_prefix) ==
  IF ps = <<>> THEN acc
  ELSE aggregate_postings(aggregate_posting(acc, ps[1], level, root_prefix),
                          Tail(ps), level, root_prefix)

\* the transaction loop, over txs already reversed
RECURSIVE aggregate_transactions(_, _, _, _, _, _)
aggregate_transactions(acc, txs, selected, level, root_prefix, apply_month) ==
  IF txs = <<>> THEN acc
  ELSE aggregate_transactions(
         IF month_skips(txs[1], selected, apply_month) THEN acc
         ELSE aggregate_postings(acc, txs[1].postings, level, root_prefix),
         Tail(txs), selected, level, root_prefix, apply_month)

EmptyAcc == [balances |-> [k \in {} |-> 0], commodities |-> [k \in {} |-> ""]]

\* State._aggregate_balances: group key -> <<balance, commodity>>
aggregate_balances(txs, selected, level, root_prefix, apply_month) ==
  LET acc == aggregate_transactions(EmptyAcc, reversed(txs), selected, level,
                                    root_prefix, apply_month)
  IN [k \in DOMAIN acc.balances |->
        <<acc.balances[k],
          IF k \in DOMAIN acc.commodities THEN acc.commodities[k] ELSE "">>]

\* an order that breaks ties by descending name
RECURSIVE sorted_keys_name_descending(_, _)
sorted_keys_name_descending(data, sign) ==
  IF DOMAIN data = {} THEN <<>>
  ELSE LET first == CHOOSE k \in DOMAIN data :
                      \A o \in DOMAIN data \ {k} :
                        \/ sign * data[k][1] < sign * data[o][1]
                        \/ sign * data[k][1] = sign * data[o][1] /\ StrLess(o, k)
       IN <<first>> \o sorted_keys_name_descending(
                         [k \in DOMAIN data \ {first} |-> data[k]], sign)

\* sorted(data.items(), key=(sign * balance, name)): the keys in that order
RECURSIVE sorted_keys(_, _)
sorted_keys(data, sign) ==
  IF DOMAIN data = {} THEN <<>>
  ELSE LET first == CHOOSE k \in DOMAIN data :
                      \A o \in DOMAIN data \ {k} :
                        \/ sign * data[k][1] < sign * data[o][1]
                        \/ sign * data[k][1] = sign * data[o][1] /\ StrLess(k, o)
       IN <<first>> \o sorted_keys([k \in DOMAIN data \ {first} |-> data[k]], sign)

\* the list of AccountBalanceData a view returns
balance_rows(data, sort_sign, display_sign) ==
  LET ks == sorted_keys(data, sort_sign)
  IN [i \in 1..Len(ks) |->
        [name |-> ks[i], balance |-> display_sign * data[ks[i]][1],
         commodity |-> data[ks[i]][2]]]

\* an asset view that applies the month filter
asset_balances_of_month(txs, selected, level) ==
  balance_rows(aggregate_balances(txs, selected, level, "asset", TRUE), -1, 1)

asset_balances_of(txs, selected, level) ==
  balance_rows(aggregate_balances(txs, selected, level, "asset", FALSE), -1, 1)

liability_balances_of(txs, selected, level) ==
  balance_rows(aggregate_balances(txs, selected, level, "liability", FALSE), -1, 1)

\* hledger_reflex_app negates and sorts by ascending raw balance; ipay_app
\* shows the raw balance and sorts by descending raw balance
income_balances_of(appv, txs, selected, level) ==
  LET data == aggregate_balances(txs, selected, level, "revenue", TRUE)
  IN IF appv = "hledger_reflex_app" THEN balance_rows(data, 1, -1)
     ELSE balance_rows(data, -1, 1)

expense_balances_of(appv, txs, selected, level) ==
  LET data == aggregate_balances(txs, selected, level, "expense", TRUE)
  IN IF appv = "hledger_reflex_app" THEN balance_rows(data, -1, -1)
     ELSE balance_rows(data, -1, 1)

(***************************************************************************)
(* state.py: the month list, the filtered transaction list and the         *)
(* level-2 category views                                                  *)
(***************************************************************************)
\* sorted(S) of a set of str
RECURSIVE sorted_strings(_)
sorted_strings(S) ==
  IF S = {} THEN <<>>
  ELSE LET first == CHOOSE a \in S : \A b \in S \ {a} : StrLess(a, b)
       IN <<first>> \o sorted_strings(S \ {first})

\* available_months: the months date[5:7] of the dates of 7 characters or
\* more, sorted descending
available_months_of(txs) ==
  reversed(sorted_strings({Slice(txs[i].date, 5, 7) :
                             i \in {j \in 1..Len(txs) : Len(txs[j].date) >= 7}}))

\* max(xs) of a non-empty list
list_max(xs) == CHOOSE m \in {xs[i] : i \in 1..Len(xs)} : \A i \in 1..Len(xs) : xs[i] <= m

\* txn_max_amount: the largest positive amount of the postings, else 0
RECURSIVE max_amount_from(_, _)
max_amount_from(ps, m) ==
  IF ps = <<>> THEN m
  ELSE max_amount_from(Tail(ps),
         IF ps[1].amounts_numeric # <<>> /\ list_max(ps[1].amounts_numeric) > m
         THEN list_max(ps[1].amounts_numeric) ELSE m)

txn_max_amount(t) == max_amount_from(t.postings, 0)

\* key(a) >= key(b) for the sort keys of transactions_filtered
filtered_key_ge(a, b, sortby) ==
  IF sortby = "amount"
  THEN \/ txn_max_amount(a) > txn_max_amount(b)
       \/ txn_max_amount(a) = txn_max_amount(b) /\ a.index >= b.index
  ELSE a.index >= b.index

RECURSIVE insert_by_key(_, _, _)
insert_by_key(sorted, x, sortby) ==
  IF sorted = <<>> THEN <<x>>
  ELSE IF filtered_key_ge(sorted[1], x, sortby)
       THEN <<sorted[1]>> \o insert_by_key(Tail(sorted), x, sortby)
       ELSE <<x>> \o sorted

\* res.sort(key=..., reverse=True): stable
RECURSIVE sort_by_key(_, _)
sort_by_key(txs, sortby) ==
  IF txs = <<>> THEN <<>>
  ELSE insert_by_key(sort_by_key(SubSeq(txs, 1, Len(txs) - 1), sortby),
                     txs[Len(txs)], sortby)

\* a loop that leaves out the test of the accounts
filtered_keeps_ignores_account(tx, selected, desc, acct) ==
  /\ ~(selected # "" /\ ~(Slice(tx.date, 5, 7) = selected))
  /\ ~(desc # "" /\ ~Contains(Lower(tx.description), desc))

\* the three continue tests of the loop of transactions_filtered
filtered_keeps(tx, selected, desc, acct) ==
  /\ ~(selected # "" /\ ~(Slice(tx.date, 5, 7) = selected))
  /\ ~(desc # "" /\ ~Contains(Lower(tx.description), desc))
  /\ ~(acct # "" /\ ~(\E k \in 1..Len(tx.postings) :
                        Contains(Lower(tx.postings[k].account), acct)))

RECURSIVE filter_transactions(_, _, _, _)
filter_transactions(txs, selected, desc, acct) ==
  IF txs = <<>> THEN <<>>
  ELSE (IF filtered_keeps(txs[1], selected, desc, acct) THEN <<txs[1]>> ELSE <<>>)
         \o filter_transactions(Tail(txs), selected, desc, acct)

transactions_filtered_of(txs, selected, search_desc, search_acct, sortby) ==
  sort_by_key(filter_transactions(txs, selected, Lower(search_desc), Lower(search_acct)),
              sortby)

\* the level-2 key: ":".join(parts[:2]) if len(parts) >= 2 else the account
level2_key_of_parts(account, parts) ==
  IF Len(parts) >= 2 THEN Join(SubSeq(parts, 1, 2)) ELSE account

level2_key(account) == level2_key_of_parts(account, Split(account))

\* sum(p.amounts_numeric) if p.amounts_numeric else 0
posting_total(p) == IF p.amounts_numeric # <<>> THEN sum_list(p.amounts_numeric) ELSE 0

\* the postings <<i, j>> of txs under the prefix
prefix_postings(txs, root_prefix) ==
  UNION {{<<i, j>> : j \in {k \in 1..Len(txs[i].postings) :
                             StartsWith(Lower(txs[i].postings[k].account), root_prefix)}} :
           i \in 1..Len(txs)}

\* expense_level2_categories / revenue_level2_categories: sorted(cats)
level2_categories_of(txs, root_prefix) ==
  sorted_strings({level2_key(txs[ij[1]].postings[ij[2]].account) :
                    ij \in prefix_postings(txs, root_prefix)})

\* the palette entry of a name, palette[int(sha256(name.lower()), 16) % 23],
\* carried as the string that determines it
palette_color(name) == [palette_at_sha256_of |-> Lower(name)]

\* expense_level2_category_colors / revenue_level2_category_colors
level2_category_colors_of(txs, root_prefix) ==
  LET cats == level2_categories_of(txs, root_prefix)
  IN [i \in 1..Len(cats) |-> <<cats[i], palette_color(cats[i])>>]

\* a dict kept as its keys in insertion order and its values
EmptyDictOrder == [keys |-> <<>>, vals |-> [k \in {} |-> 0]]

\* d[key] += amount of a defaultdict(int)
dict_add(d, key, amount) ==
  IF key \in DOMAIN d.vals
  THEN [keys |-> d.keys, vals |-> [d.vals EXCEPT ![key] = @ + amount]]
  ELSE [keys |-> Append(d.keys, key), vals |-> d.vals @@ (key :> amount)]

RECURSIVE level2_add_postings(_, _, _)
level2_add_postings(d, ps, root_prefix) ==
  IF ps = <<>> THEN d
  ELSE level2_add_postings(
         IF StartsWith(Lower(ps[1].account), root_prefix)
         THEN dict_add(d, level2_key(ps[1].account), posting_total(ps[1]))
         ELSE d,
         Tail(ps), root_prefix)

\* the loop of expense_level2_data over the transactions
RECURSIVE level2_totals(_, _, _)
level2_totals(d, txs, selected) ==
  IF txs = <<>> THEN d
  ELSE level2_totals(
         IF selected # "" /\ ~(Slice(txs[1].date, 5, 7) = selected) THEN d
         ELSE level2_add_postings(d, txs[1].postings, "expense"),
         Tail(txs), selected)

\* a magnitude that keeps the sign
abs_value_signed(v) == v

abs_value(v) == IF v < 0 THEN 0 - v ELSE v

\* the pie rows in the order of the dict, those with value > 0 only
RECURSIVE level2_rows(_, _)
level2_rows(keys, vals) ==
  IF keys = <<>> THEN <<>>
  ELSE (IF abs_value(vals[keys[1]]) > 0
        THEN <<[name |-> keys[1], value |-> abs_value(vals[keys[1]]),
                fill |-> palette_color(keys[1])]>>
        ELSE <<>>) \o level2_rows(Tail(keys), vals)

RECURSIVE insert_by_value(_, _)
insert_by_value(sorted, x) ==
  IF sorted = <<>> THEN <<x>>
  ELSE IF sorted[1].value >= x.value
       THEN <<sorted[1]>> \o insert_by_value(Tail(sorted), x)
       ELSE <<x>> \o sorted

\* result.sort(key=value, reverse=True): stable
RECURSIVE sort_by_value(_)
sort_by_value(rows) ==
  IF rows = <<>> THEN <<>>
  ELSE insert_by_value(sort_by_value(SubSeq(rows, 1, Len(rows) - 1)), rows[Len(rows)])

level2_data_rows(d) == sort_by_value(level2_rows(d.keys, d.vals))

expense_level2_data_of(txs, selected) ==
  level2_data_rows(level2_totals(EmptyDictOrder, txs, selected))

\* month_cat: the year-month buckets date[:7] of the dates of 7 characters
\* or more, each a dict from category to the signed sum
RECURSIVE month_cat_postings(_, _, _, _)
month_cat_postings(mc, month, ps, root_prefix) ==
  IF ps = <<>> THEN mc
  ELSE month_cat_postings(
         IF StartsWith(Lower(ps[1].account), root_prefix)
         THEN (IF month \in DOMAIN mc
               THEN [mc EXCEPT ![month] =
                       dict_add(@, level2_key(ps[1].account), posting_total(ps[1]))]
               ELSE mc @@ (month :> dict_add(EmptyDictOrder, level2_key(ps[1].account),
                                             posting_total(ps[1]))))
         ELSE mc,
         month, Tail(ps), root_prefix)

RECURSIVE month_cat_of(_, _, _)
month_cat_of(mc, txs, root_prefix) ==
  IF txs = <<>> THEN mc
  ELSE month_cat_of(
         IF Len(txs[1].date) < 7 THEN mc
         ELSE month_cat_postings(mc, Slice(txs[1].date, 0, 7), txs[1].postings, root_prefix),
         Tail(txs), root_prefix)

\* a row that has only the categories of its own month
stacked_row_own_categories(month, bucket, categories) ==
  [k \in {"month"} \cup DOMAIN bucket.vals |->
     IF k = "month" THEN month ELSE abs_value(bucket.vals[k])]

\* one row: "month" and, for every category, the magnitude of the bucket's
\* sum, 0 when the bucket has no such category
stacked_row(month, bucket, categories) ==
  [k \in {"month"} \cup {categories[i] : i \in 1..Len(categories)} |->
     IF k = "month" THEN month
     ELSE abs_value(IF k \in DOMAIN bucket.vals THEN bucket.vals[k] ELSE 0)]

stacked_rows(mc, months, categories) ==
  [i \in 1..Len(months) |-> stacked_row(months[i], mc[months[i]], categories)]

\* rows from the latest month to the earliest
stacked_of_month_cat_descending(mc, categories) ==
  stacked_rows(mc, reversed(sorted_strings(DOMAIN mc)), categories)

stacked_of_month_cat(mc, categories) ==
  stacked_rows(mc, sorted_strings(DOMAIN mc), categories)

\* monthly_expense_stacked / monthly_revenue_stacked
monthly_stacked_of(txs, root_prefix) ==
  stacked_of_month_cat(month_cat_of([m \in {} |-> EmptyDictOrder], txs, root_prefix),
                       level2_categories_of(txs, root_prefix))

(***************************************************************************)
(* The session: initial state and event handlers                           *)
(***************************************************************************)
MonthInputs == {"", "01"}

TextInputs == {" Food "}

LevelInputs == {"0", "5", " 11", "abc"}

SortInputs == {"index", "amount", "date"}

QueryInputs == {"", "cash"}

Init ==
  /\ app \in Apps
  /\ transactions = <<>>
  /\ accountnames = <<>>
  /\ loading = FALSE
  /\ selected_month = ""
  /\ search_description = ""
  /\ search_account = ""
  /\ nested_level = 3
  /\ sort_by = "index"
  /\ pc = "idle"
  /\ client = "None"
  /\ raw_txns = <<>>
  /\ names = <<>>
  /\ outcome = ""
  /\ raised = ""
  /\ requests = {}
  /\ ledger = <<>>

data_vars == <<transactions, accountnames, loading>>

net_vars == <<client, raw_txns, names, outcome, requests>>

set_selected_month(month) ==
  /\ pc = "idle"
  /\ selected_month' = month
  /\ raised' = ""
  /\ UNCHANGED <<app, data_vars, net_vars, pc, ledger, search_description,
                 search_account, nested_level, sort_by>>

set_search_description(text) ==
  /\ pc = "idle"
  /\ search_description' = Strip(text)
  /\ raised' = ""
  /\ UNCHANGED <<app, data_vars, net_vars, pc, ledger, selected_month,
                 search_account, nested_level, sort_by>>

set_search_account(text) ==
  /\ pc = "idle"
  /\ search_account' = Strip(text)
  /\ raised' = ""
  /\ UNCHANGED <<app, data_vars, net_vars, pc, ledger, selected_month,
                 search_description, nested_level, sort_by>>

\* set_nested_level without the upper limit
set_nested_level_no_upper(level) ==
  /\ pc = "idle"
  /\ nested_level' = LET r == int_str(level)
                     IN IF r.exc = "" THEN Max(1, r.val) ELSE 1
  /\ raised' = ""
  /\ UNCHANGED <<app, data_vars, net_vars, pc, ledger, selected_month,
                 search_description, search_account, sort_by>>

set_nested_level(level) ==
  /\ pc = "idle"
  /\ nested_level' = LET r == int_str(level)
                     IN IF r.exc = "" THEN Max(1, Min(10, r.val)) ELSE 1
  /\ raised' = ""
  /\ UNCHANGED <<app, data_vars, net_vars, pc, ledger, selected_month,
                 search_description, search_account, sort_by>>

set_sort_by(value) ==
  /\ pc = "idle"
  /\ sort_by' = IF value \in {"index", "amount"} THEN value ELSE "index"
  /\ raised' = ""
  /\ UNCHANGED <<app, data_vars, net_vars, pc, ledger, selected_month,
                 search_description, search_account, nested_level>>

\* a clear that also drops the loaded data
clear_transaction_filters_and_data ==
  /\ pc = "idle"
  /\ selected_month' = ""
  /\ search_description' = ""
  /\ search_account' = ""
  /\ raised' = ""
  /\ transactions' = <<>>
  /\ UNCHANGED <<app, accountnames, loading, net_vars, pc, ledger, nested_level, sort_by>>

clear_transaction_filters ==
  /\ pc = "idle"
  /\ selected_month' = ""
  /\ search_description' = ""
  /\ search_account' = ""
  /\ raised' = ""
  /\ UNCHANGED <<app, data_vars, net_vars, pc, ledger, nested_level, sort_by>>

filter_vars == <<selected_month, search_description, search_account,
                 nested_level, sort_by>>

\* a load that empties the list before it fetches
load_transactions_start_clears ==
  /\ pc = "idle"
  /\ loading' = TRUE
  /\ raised' = ""
  /\ pc' = "lt_yield"
  /\ transactions' = <<>>
  /\ UNCHANGED <<app, accountnames, net_vars, ledger, filter_vars>>

\* load_transactions up to its yield
load_transactions_start ==
  /\ pc = "idle"
  /\ loading' = TRUE
  /\ raised' = ""
  /\ pc' = "lt_yield"
  /\ UNCHANGED <<app, transactions, accountnames, net_vars, ledger, filter_vars>>

\* load_transactions resumed: the with block is entered and the try block runs
load_transactions_request ==
  /\ pc = "lt_yield"
  /\ \E mode \in Modes :
       LET r == HLedgerClient_get_transactions(Server(mode, ledger))
       IN /\ raw_txns' = IF r.exc = "" THEN r.val ELSE <<>>
          /\ outcome' = IF r.exc = "" THEN "ok" ELSE r.exc
  /\ client' = HLedgerClient_ensure_client("None")
  /\ requests' = requests \cup {"transactions"}
  /\ pc' = "lt_with"
  /\ UNCHANGED <<app, data_vars, names, raised, ledger, filter_vars>>

\* an end of the load that also drops the selected month
load_transactions_finish_clears_month ==
  /\ pc = "lt_with"
  /\ client' = HLedgerClient_close(client)
  /\ LET e == load_transactions_tail(app, raw_txns, transactions, loading)
     IN /\ transactions' = e.transactions
        /\ loading' = e.loading
        /\ raised' = e.raised
  /\ raw_txns' = <<>>
  /\ pc' = "idle"
  /\ selected_month' = ""
  /\ UNCHANGED <<app, accountnames, names, outcome, requests, ledger,
                 search_description, search_account, nested_level, sort_by>>

\* load_transactions from the exit of the with block to its end
load_transactions_finish ==
  /\ pc = "lt_with"
  /\ client' = HLedgerClient_close(client)
  /\ LET e == load_transactions_tail(app, raw_txns, transactions, loading)
     IN /\ transactions' = e.transactions
        /\ loading' = e.loading
        /\ raised' = e.raised
  /\ raw_txns' = <<>>
  /\ pc' = "idle"
  /\ UNCHANGED <<app, accountnames, names, outcome, requests, ledger, filter_vars>>

\* load_accountnames: the with block is entered and the try block runs
load_accountnames_request ==
  /\ pc = "idle"
  /\ \E mode \in Modes :
       LET r == HLedgerClient_get_accountnames(Server(mode, ledger))
       IN /\ names' = IF r.exc = "" THEN r.val ELSE <<>>
          /\ outcome' = IF r.exc = "" THEN "ok" ELSE r.exc
  /\ client' = HLedgerClient_ensure_client("None")
  /\ requests' = requests \cup {"accountnames"}
  /\ raised' = ""
  /\ pc' = "an_with"
  /\ UNCHANGED <<app, data_vars, raw_txns, ledger, filter_vars>>

\* load_accountnames from the exit of the with block to its end
load_accountnames_finish ==
  /\ pc = "an_with"
  /\ client' = HLedgerClient_close(client)
  /\ accountnames' = names
  /\ names' = <<>>
  /\ pc' = "idle"
  /\ UNCHANGED <<app, transactions, loading, raw_txns, outcome, raised,
                 requests, ledger, filter_vars>>

\* init_transactions_page: self.load_transactions() only creates a
\* generator object, which is dropped without being run
init_transactions_page(q) ==
  /\ pc = "idle"
  /\ search_account' = IF q # "" THEN q ELSE search_account
  /\ raised' = ""
  /\ UNCHANGED <<app, data_vars, net_vars, pc, ledger, selected_month,
                 search_description, nested_level, sort_by>>

\* between two events of the session a transaction is added to the journal
journal_append ==
  /\ pc = "idle"
  /\ Len(ledger) < MaxJournal
  /\ ledger' = Append(ledger, Journal[Len(ledger) + 1])
  /\ UNCHANGED <<app, data_vars, net_vars, pc, raised, filter_vars>>

Next ==
  \/ \E month \in MonthInputs : set_selected_month(month)
  \/ \E text \in TextInputs : set_search_description(text)
  \/ \E text \in TextInputs : set_search_account(text)
  \/ \E level \in LevelInputs : set_nested_level(level)
  \/ \E value \in SortInputs : set_sort_by(value)
  \/ clear_transaction_filters
  \/ load_transactions_start
  \/ load_transactions_request
  \/ load_transactions_finish
  \/ load_accountnames_request
  \/ load_accountnames_finish
  \/ \E q \in QueryInputs : init_transactions_page(q)
  \/ journal_append

Spec == Init /\ [][Next]_vars

(***************************************************************************)
(* The computed vars of the current state                                  *)
(***************************************************************************)
asset_balances == asset_balances_of(transactions, selected_month, nested_level)

liability_balances == liability_balances_of(transactions, selected_month, nested_level)

income_balances == income_balances_of(app, transactions, selected_month, nested_level)

expense_balances == expense_balances_of(app, transactions, selected_month, nested_level)

available_months == available_months_of(transactions)

transactions_filtered ==
  transactions_filtered_of(transactions, selected_month, search_description,
                           search_account, sort_by)

expense_level2_categories == level2_categories_of(transactions, "expense")

revenue_level2_categories == level2_categories_of(transactions, "revenue")

expense_level2_data == expense_level2_data_of(transactions, selected_month)

monthly_expense_stacked == monthly_stacked_of(transactions, "expense")

monthly_revenue_stacked == monthly_stacked_of(transactions, "revenue")

(***************************************************************************)
(* Properties of the loader and of the event handlers                      *)
(***************************************************************************)
Failures == {"HLedgerAPIError", "JSONDecodeError", "ValidationError"}

\* C1: when the GET /transactions of a load fails (transport error, non-2xx
\* status, undecodable or schema-invalid body), the load ends without an
\* exception and with transactions empty, whatever transactions held before.
C1_FailedLoadGivesEmpty ==
  [][(pc = "lt_with" /\ outcome \in Failures /\ pc' = "idle")
       => (transactions' = <<>> /\ raised' = "")]_vars

\* a load whose request failed is about to end while transactions is not empty
C1_Witness ==
  pc = "lt_with" /\ outcome \in Failures /\ transactions # <<>>

\* an aquantity from which int(qty_val.get("floatingPoint")) gets a value
WellFormedQuantity(q) ==
  /\ q.t = "obj"
  /\ "floatingPoint" \in DOMAIN q.d
  /\ py_int(q.d["floatingPoint"]).exc = ""

\* tx is the entry of raw transaction t, each malformed quantity counted as 0
EntryOf(tx, t) ==
  /\ tx.index = t.tindex /\ tx.date = t.tdate /\ tx.description = t.tdescription
  /\ Len(tx.postings) = Len(t.tpostings)
  /\ \A k \in 1..Len(t.tpostings) :
       LET items == or_list(t.tpostings[k].pamount)
           p == tx.postings[k]
       IN /\ p.account = t.tpostings[k].paccount
          /\ Len(p.amounts_numeric) = Len(items)
          /\ \A m \in 1..Len(items) :
               p.amounts_numeric[m] =
                 IF WellFormedQuantity(items[m].aquantity)
                 THEN py_int(items[m].aquantity.d["floatingPoint"]).val
                 ELSE 0

\* C2: normalisation never raises on an absent or malformed quantity: the
\* amount gets quantity 0 and every other amount, posting and transaction
\* of the response is in transactions after the load.
C2_MalformedQuantityIsZero ==
  [][(pc = "lt_with" /\ outcome = "ok" /\ pc' = "idle")
       => /\ raised' = ""
          /\ Len(transactions') = Len(raw_txns)
          /\ \A i \in 1..Len(raw_txns) :
               \E j \in 1..Len(transactions') : EntryOf(transactions'[j], raw_txns[i])]_vars

\* C3 as stated: transactions is sorted by index strictly descending.
C3_StrictlyDescending ==
  \A i \in 1..(Len(transactions) - 1) :
    transactions[i].index > transactions[i + 1].index

\* C3 as amended: transactions is sorted by index descending, each index at
\* least the next one, and strictly so when no index occurs twice.
C3_SortedDescending ==
  /\ \A i \in 1..(Len(transactions) - 1) :
       transactions[i].index >= transactions[i + 1].index
  /\ (\A i, j \in 1..Len(transactions) :
        i # j => transactions[i].index # transactions[j].index)
       => \A i \in 1..(Len(transactions) - 1) :
            transactions[i].index > transactions[i + 1].index

\* a load has stored three transactions, two of them with the same index
C3_Witness ==
  /\ pc = "idle" /\ Len(transactions) >= 3
  /\ \E i \in 1..(Len(transactions) - 1) :
       transactions[i].index = transactions[i + 1].index
  /\ \E i \in 1..(Len(transactions) - 1) :
       transactions[i].index > transactions[i + 1].index

\* C4: the HTTP client of a load exists only inside the with block of that
\* load; once the block is left, on success or on any error, it is closed
\* and _client is None.
C4_ClientReleased ==
  pc \notin {"lt_with", "an_with"} => client = "None"

\* a load ended after an API or network error and its client is released
C4_Witness ==
  pc = "idle" /\ outcome = "HLedgerAPIError" /\ requests # {} /\ client = "None"

\* what a load of the server's current journal stores, for each way the
\* server can answer
LoadOutcomes(appv, journal) ==
  {load_transactions_tail(appv,
     LET r == HLedgerClient_get_transactions(Server(mode, journal))
     IN IF r.exc = "" THEN r.val ELSE <<>>, <<>>, FALSE).transactions : mode \in Modes}

\* C5: when init_transactions_page has completed, the loader has run:
\* GET /transactions was issued and transactions was rebuilt from the
\* server's answer.
C5_InitPageLoads ==
  [][(\E q \in QueryInputs : init_transactions_page(q))
       => /\ "transactions" \in requests'
          /\ transactions' \in LoadOutcomes(app, ledger)]_vars

FilterStep ==
  \/ \E month \in MonthInputs : set_selected_month(month)
  \/ \E text \in TextInputs : set_search_description(text)
  \/ \E text \in TextInputs : set_search_account(text)
  \/ \E level \in LevelInputs : set_nested_level(level)
  \/ \E value \in SortInputs : set_sort_by(value)
  \/ clear_transaction_filters

\* C6: the filter events leave transactions, accountnames and loading as
\* they are and issue no request.
C6_FiltersTouchNoData ==
  [][FilterStep => UNCHANGED <<transactions, accountnames, loading, requests, client>>]_vars

\* filters are set in a session that holds loaded transactions and names
C6_Witness ==
  /\ pc = "idle" /\ transactions # <<>> /\ accountnames # <<>>
  /\ selected_month # "" /\ search_description # "" /\ sort_by = "amount"

(***************************************************************************)
(* The views over loaded ledgers: a session that has loaded any ledger of  *)
(* up to MaxTxns transactions, in which the month and the depth are set.   *)
(***************************************************************************)
MaxTxns == 2

ViewPool ==
  Journal \o
  << Txn(6, "2025-02-28", "Odd accounts",
         << Post("Expense", <<Amt(400, "USD")>>),
            Post("expense:food:Pizza", <<Amt(155, "EUR")>>),
            Post("Assets:Broker", <<Amt(-555, "")>>),
            Post("Liabilities:Loan", <<Amt(10, "USD")>>) >>),
     Txn(7, "2024-01-31", "Edge",
         << Post("Expense::Odd", <<Amt(-20, "USD")>>),
            Post("Revenue:Salary:", <<Amt(-300, "EUR"), Amt(-10, "USD")>>),
            Post("", <<Amt(320, "USD")>>),
            Post("Liability", <<Amt(-5000, ""), Amt(2000, "VND")>>) >>),
     Txn(8, "2025-01-05", "Transfer",
         << Post("Asset:Wallet", <<Amt(400, "USD")>>),
            Post("Asset:Bank", <<Amt(400, "USD")>>),
            Post("Asset:Safe", <<Amt(-600, "USD")>>),
            Post("Liability:Visa", <<Amt(-100, "USD")>>),
            Post("Liability:Amex", <<Amt(-100, "USD")>>) >>),
     Txn(9, "2025-03-15", "Interest",
         << Post("Revenue:Interest", <<Amt(-30, "USD")>>) >>) >>

\* the ledgers of up to MaxTxns pool transactions, in the pool's order
ViewBodies ==
  UNION {{[i \in 1..n |-> ViewPool[f[i]]] :
            f \in {g \in [1..n -> 1..Len(ViewPool)] :
                     \A i \in 1..(n - 1) : g[i] < g[i + 1]}} :
           n \in 0..MaxTxns}

ViewMonthInputs == {"", "01", "02", "1"}

ViewLevelInputs == {"1", "2", "4"}

InitViews ==
  /\ app \in Apps
  /\ \E body \in ViewBodies :
       LET r == HLedgerClient_get_transactions(Server("up", body))
           e == load_transactions_tail(app, r.val, <<>>, TRUE)
       IN /\ e.raised = ""
          /\ transactions = e.transactions
          /\ ledger = body
  /\ accountnames = <<>>
  /\ loading = FALSE
  /\ selected_month = ""
  /\ search_description = ""
  /\ search_account = ""
  /\ nested_level = 3
  /\ sort_by = "index"
  /\ pc = "idle"
  /\ client = "None"
  /\ raw_txns = <<>>
  /\ names = <<>>
  /\ outcome = "ok"
  /\ raised = ""
  /\ requests = {"transactions"}

NextViews ==
  \/ \E month \in ViewMonthInputs : set_selected_month(month)
  \/ \E level \in ViewLevelInputs : set_nested_level(level)

SpecViews == InitViews /\ [][NextViews]_vars

(***************************************************************************)
(* Properties of the balance aggregation                                   *)
(***************************************************************************)
RootPrefixes == {"asset", "liability", "revenue", "expense"}

Levels == 1..10

\* the transactions the month filter keeps: all of them when it is off or
\* no month is selected, else those whose characters 6 and 7 are the month
InMonthScope(txs, selected, apply_month) ==
  {i \in 1..Len(txs) :
     \/ ~apply_month
     \/ selected = ""
     \/ Len(txs[i].date) >= 7 /\ SubSeq(txs[i].date, 6, 7) = selected}

\* positions <<transaction, posting>> of the postings in scope under the prefix
MatchingPostings(txs, selected, root_prefix, apply_month) ==
  UNION {{<<i, j>> : j \in {k \in 1..Len(txs[i].postings) :
                             StartsWith(Lower(txs[i].postings[k].account), root_prefix)}} :
           i \in InMonthScope(txs, selected, apply_month)}

RECURSIVE SumAmounts(_, _)
SumAmounts(txs, positions) ==
  IF positions = {} THEN 0
  ELSE LET ij == CHOOSE x \in positions : TRUE
       IN sum_list(txs[ij[1]].postings[ij[2]].amounts_numeric)
            + SumAmounts(txs, positions \ {ij})

KeyAt(txs, ij, level) == group_key(txs[ij[1]].postings[ij[2]].account, level)

AggregatesExactly(txs, selected, level, root_prefix, apply_month) ==
  LET data == aggregate_balances(txs, selected, level, root_prefix, apply_month)
      matching == MatchingPostings(txs, selected, root_prefix, apply_month)
  IN /\ DOMAIN data = {KeyAt(txs, ij, level) : ij \in matching}
     /\ \A k \in DOMAIN data :
          data[k][1] = SumAmounts(txs, {ij \in matching : KeyAt(txs, ij, level) = k})

\* C7: _aggregate_balances has one entry per group key with a matching
\* posting, and its balance is the sum of the amounts of exactly the
\* postings in scope that start with the prefix and have that group key.
C7_BalanceIsSumOfMatching ==
  \A root_prefix \in RootPrefixes : \A apply_month \in BOOLEAN :
    AggregatesExactly(transactions, selected_month, nested_level, root_prefix, apply_month)

\* a month is selected, a group sums postings of two transactions, and a
\* posting of a transaction in scope is outside the prefix
C7_Witness ==
  /\ selected_month # ""
  /\ LET matching == MatchingPostings(transactions, selected_month, "expense", TRUE)
     IN /\ \E a, b \in matching :
             /\ a[1] # b[1]
             /\ KeyAt(transactions, a, nested_level) = KeyAt(transactions, b, nested_level)
             /\ SumAmounts(transactions, {a}) # 0 /\ SumAmounts(transactions, {b}) # 0
        /\ \E i \in InMonthScope(transactions, selected_month, TRUE) :
             \E j \in 1..Len(transactions[i].postings) :
               /\ <<i, j>> \notin matching
               /\ sum_list(transactions[i].postings[j].amounts_numeric) # 0

CountColons(s) == Cardinality({i \in 1..Len(s) : CharAt(s, i) = ":"})

\* key is account cut after its first n segments
FirstSegments(key, account, n) ==
  /\ CountColons(key) = n - 1
  /\ StartsWith(account, key)
  /\ (key = account \/ CharAt(account, Len(key) + 1) = ":")

GroupKeyShape(account, n) ==
  LET key == group_key(account, n)
      segments == CountColons(account) + 1
  IN /\ CountColons(key) + 1 <= n
     /\ segments >= n => FirstSegments(key, account, n)
     /\ segments < n => key = account

\* C8: for every account path and depth N >= 1 the group key has at most N
\* segments, is the first N segments when the path has at least N, and is
\* the whole path when it has fewer.
C8_GroupKeyShape ==
  \A i \in 1..Len(transactions) : \A j \in 1..Len(transactions[i].postings) :
    \A n \in Levels : GroupKeyShape(transactions[i].postings[j].account, n)

\* at the current depth one loaded account is cut and another is kept whole
C8_Witness ==
  /\ nested_level = 2
  /\ \E i \in 1..Len(transactions) : \E j \in 1..Len(transactions[i].postings) :
       LET a == transactions[i].postings[j].account
       IN CountColons(a) = 2 /\ group_key(a, nested_level) # a
  /\ \E i \in 1..Len(transactions) : \E j \in 1..Len(transactions[i].postings) :
       LET a == transactions[i].postings[j].account
       IN CountColons(a) = 0 /\ a # "" /\ group_key(a, nested_level) = a

\* the transactions loaded from the first journal entry: Asset:Bank:Checking
\* +100 and Asset:Cash +20
ExampleAssets ==
  load_transactions_tail("hledger_reflex_app",
    HLedgerClient_get_transactions(Server("up", <<Journal[1]>>)).val, <<>>, TRUE).transactions

\* C9: asset_balances and liability_balances are the same for every
\* selected month; the example postings at depth 1 give the single group
\* Asset with balance 120.
C9_AssetsIgnoreMonth ==
  /\ \A month \in ViewMonthInputs :
       /\ asset_balances_of(transactions, month, nested_level) = asset_balances
       /\ liability_balances_of(transactions, month, nested_level) = liability_balances
  /\ (transactions = ExampleAssets /\ nested_level = 1)
       => asset_balances = <<[name |-> "Asset", balance |-> 120, commodity |-> "USD"]>>

\* a month is selected that leaves out a transaction with an asset posting
C9_Witness ==
  /\ selected_month = "02"
  /\ asset_balances # <<>>
  /\ \E ij \in MatchingPostings(transactions, "", "asset", FALSE) :
       /\ ij[1] \notin InMonthScope(transactions, selected_month, TRUE)
       /\ SumAmounts(transactions, {ij}) # 0

\* the transactions that contribute under the selected month
Contributing(txs, selected) ==
  LET keep(tx) == selected = "" \/ (Len(tx.date) >= 7 /\ SubSeq(tx.date, 6, 7) = selected)
  IN SelectSeq(txs, keep)

\* C10: in income_balances and expense_balances a transaction contributes
\* iff its month date[5:7] is the selected month, and every transaction
\* contributes when no month is selected.
C10_MonthFilter ==
  /\ income_balances
       = income_balances_of(app, Contributing(transactions, selected_month), "", nested_level)
  /\ expense_balances
       = expense_balances_of(app, Contributing(transactions, selected_month), "", nested_level)

\* a month is selected that keeps one expense transaction and drops another
C10_Witness ==
  /\ selected_month = "02"
  /\ expense_balances # <<>>
  /\ \E ij \in MatchingPostings(transactions, "", "expense", FALSE) :
       /\ ij[1] \notin InMonthScope(transactions, selected_month, TRUE)
       /\ SumAmounts(transactions, {ij}) # 0

(***************************************************************************)
(* The views as functions of any list of TransactionData: date is a str   *)
(* field, and the views read it by length and by slice.  The session      *)
(* holds up to MaxData records and sets its filters.                      *)
(***************************************************************************)
MaxData == 2

\* a PostingData as the loader builds it from quantities and one commodity
PostingOf(account, nums, comm) ==
  [account |-> account,
   amounts |-> [i \in 1..Len(nums) |-> amount_formatted(nums[i], comm)],
   amounts_display |-> JoinComma([i \in 1..Len(nums) |-> amount_formatted(nums[i], comm)]),
   amounts_numeric |-> nums,
   commodity |-> comm]

TransactionOf(index, date, description, postings) ==
  [index |-> index, date |-> date, description |-> description,
   postings |-> postings, posting_count |-> Len(postings)]

DataPool ==
  << TransactionOf(5, "2025-01-15", "Food market",
       << PostingOf("Expense:Food", <<50>>, "USD"),
          PostingOf("Asset:Cash", <<-50>>, "USD") >>),
     TransactionOf(4, "2025-1", "Food stall",
       << PostingOf("Expense:Food", <<7>>, "USD"),
          PostingOf("Revenue:Tips", <<-7>>, "USD") >>),
     TransactionOf(3, "", "Undated rent",
       << PostingOf("Expense:Rent", <<900>>, "USD"),
          PostingOf("Revenue:Salary", <<-900>>, "USD") >>),
     TransactionOf(2, "2025-", "Food truck",
       << PostingOf("Expense:Food:Out", <<12>>, "EUR"),
          PostingOf("Revenue:Gift", <<-12>>, "EUR") >>) >>

\* the lists of up to MaxData pool records, in the pool's order
DataBodies ==
  UNION {{[i \in 1..n |-> DataPool[f[i]]] :
            f \in {g \in [1..n -> 1..Len(DataPool)] :
                     \A i \in 1..(n - 1) : g[i] < g[i + 1]}} :
           n \in 0..MaxData}

InitData ==
  /\ app \in Apps
  /\ transactions \in DataBodies
  /\ ledger = <<>>
  /\ accountnames = <<>>
  /\ loading = FALSE
  /\ selected_month = ""
  /\ search_description = ""
  /\ search_account = ""
  /\ nested_level = 3
  /\ sort_by = "index"
  /\ pc = "idle"
  /\ client = "None"
  /\ raw_txns = <<>>
  /\ names = <<>>
  /\ outcome = "ok"
  /\ raised = ""
  /\ requests = {"transactions"}

NextData ==
  \/ \E month \in ViewMonthInputs : set_selected_month(month)
  \/ \E level \in ViewLevelInputs : set_nested_level(level)
  \/ \E text \in TextInputs : set_search_description(text)
  \/ \E value \in SortInputs : set_sort_by(value)

SpecData == InitData /\ [][NextData]_vars

(***************************************************************************)
(* Properties of the month-based views                                     *)
(***************************************************************************)
\* txs without its i-th transaction
Without(txs, i) == SubSeq(txs, 1, i - 1) \o SubSeq(txs, i + 1, Len(txs))

\* the monthly series of txs has the months of the series of others, and
\* the same amount in every cell of a category of others
SameBuckets(txs, others, root_prefix) ==
  LET rows == monthly_stacked_of(txs, root_prefix)
      orows == monthly_stacked_of(others, root_prefix)
  IN /\ Len(rows) = Len(orows)
     /\ \A r \in 1..Len(rows) :
          \A k \in DOMAIN orows[r] : k \in DOMAIN rows[r] /\ rows[r][k] = orows[r][k]

\* the i-th transaction is left out of the month-based views
ExcludedFromMonthViews(txs, i, selected, level, sortby) ==
  /\ available_months_of(txs) = available_months_of(Without(txs, i))
  /\ SameBuckets(txs, Without(txs, i), "expense")
  /\ SameBuckets(txs, Without(txs, i), "revenue")
  /\ selected # "" =>
       /\ \A k \in 1..Len(transactions_filtered_of(txs, selected, "", "", sortby)) :
            transactions_filtered_of(txs, selected, "", "", sortby)[k] # txs[i]
       /\ aggregate_balances(txs, selected, level, "revenue", TRUE)
            = aggregate_balances(Without(txs, i), selected, level, "revenue", TRUE)
       /\ aggregate_balances(txs, selected, level, "expense", TRUE)
            = aggregate_balances(Without(txs, i), selected, level, "expense", TRUE)
       /\ expense_level2_data_of(txs, selected)
            = expense_level2_data_of(Without(txs, i), selected)

RowsShow(rows, data, sign) ==
  /\ {rows[i].name : i \in 1..Len(rows)} = DOMAIN data
  /\ Len(rows) = Cardinality(DOMAIN data)
  /\ \A i \in 1..Len(rows) : rows[i].balance = sign * data[rows[i].name][1]

\* C12: income_balances and expense_balances show the negation of the raw
\* aggregated sum of every group; asset_balances and liability_balances
\* show the raw sum.
C12_RevenueExpenseNegated ==
  /\ RowsShow(income_balances,
              aggregate_balances(transactions, selected_month, nested_level, "revenue", TRUE), -1)
  /\ RowsShow(expense_balances,
              aggregate_balances(transactions, selected_month, nested_level, "expense", TRUE), -1)
  /\ RowsShow(asset_balances,
              aggregate_balances(transactions, selected_month, nested_level, "asset", FALSE), 1)
  /\ RowsShow(liability_balances,
              aggregate_balances(transactions, selected_month, nested_level, "liability", FALSE), 1)

(***************************************************************************)
(* Properties of the monthly series                                        *)
(***************************************************************************)
SeriesPrefixes == {"expense", "revenue"}

\* the level-2 categories observed under the prefix in txs
ObservedCategories(txs, root_prefix) ==
  {group_key(txs[ij[1]].postings[ij[2]].account, 2) : ij \in prefix_postings(txs, root_prefix)}

\* the postings of the (YYYY-MM month, level-2 category) pair
CellPostings(txs, root_prefix, month, cat) ==
  {ij \in prefix_postings(txs, root_prefix) :
     /\ Len(txs[ij[1]].date) >= 7
     /\ SubSeq(txs[ij[1]].date, 1, 7) = month
     /\ group_key(txs[ij[1]].postings[ij[2]].account, 2) = cat}

Rectangular(txs, root_prefix) ==
  LET rows == monthly_stacked_of(txs, root_prefix)
      cats == ObservedCategories(txs, root_prefix)
  IN /\ "month" \notin cats
     /\ \A r \in 1..Len(rows) :
          /\ DOMAIN rows[r] = {"month"} \cup cats
          /\ \A c \in cats :
               CellPostings(txs, root_prefix, rows[r]["month"], c) = {} => rows[r][c] = 0

\* C14: every row of monthly_expense_stacked and of monthly_revenue_stacked
\* has the key "month" and one entry for every level-2 category observed
\* under the prefix in the transactions, which is 0 when the month has no
\* posting of the category.
C14_RowsRectangular ==
  \A root_prefix \in SeriesPrefixes : Rectangular(transactions, root_prefix)

\* the expense series has two months and two categories, with a cell that is
\* 0 for want of postings and a cell that is not 0
C14_Witness ==
  LET rows == monthly_expense_stacked
      cats == ObservedCategories(transactions, "expense")
  IN /\ Len(rows) >= 2 /\ Cardinality(cats) >= 2
     /\ \E r \in 1..Len(rows) : \E c, d \in cats :
          /\ CellPostings(transactions, "expense", rows[r]["month"], c) = {}
          /\ rows[r][c] = 0
          /\ rows[r][d] > 0

CellsAreMagnitudes(txs, root_prefix) ==
  LET rows == monthly_stacked_of(txs, root_prefix)
  IN \A r \in 1..Len(rows) : \A c \in DOMAIN rows[r] \ {"month"} :
       LET total == SumAmounts(txs, CellPostings(txs, root_prefix, rows[r]["month"], c))
       IN /\ rows[r][c] >= 0
          /\ rows[r][c] = IF total < 0 THEN 0 - total ELSE total

\* the transactions of the example, as a load of the example journal stores them
ExampleSeriesTransactions ==
  load_transactions_tail("hledger_reflex_app",
    HLedgerClient_get_transactions(Server("up",
      << Txn(2, "2025-01-15", "", <<Post("Expense:Food", <<Amt(-500, "")>>)>>),
         Txn(1, "2025-02-10", "", <<Post("Expense:Food", <<Amt(-300, "")>>)>>) >>)).val,
    <<>>, TRUE).transactions

ExampleSeries ==
  << ("month" :> "2025-01") @@ ("Expense:Food" :> 50),
     ("month" :> "2025-02") @@ ("Expense:Food" :> 30) >>

\* C15: every cell of the monthly series is the absolute value of the signed
\* sum of the amounts of the postings of its (YYYY-MM, level-2 category)
\* pair, hence never negative; the expense series of the example
\* {2, 2025-01-15, Expense:Food -50}, {1, 2025-02-10, Expense:Food -30} is
\* [{month 2025-01, Expense:Food 50}, {month 2025-02, Expense:Food 30}].
C15_CellsAreMagnitudes ==
  /\ \A root_prefix \in SeriesPrefixes : CellsAreMagnitudes(transactions, root_prefix)
  /\ monthly_stacked_of(ExampleSeriesTransactions, "expense") = ExampleSeries

\* a cell of the revenue series shows the magnitude of a negative sum, and
\* a cell of the expense series shows a positive sum
C15_Witness ==
  /\ \E r \in 1..Len(monthly_revenue_stacked) :
       \E c \in DOMAIN monthly_revenue_stacked[r] \ {"month"} :
         /\ SumAmounts(transactions,
              CellPostings(transactions, "revenue", monthly_revenue_stacked[r]["month"], c)) < 0
         /\ monthly_revenue_stacked[r][c] > 0
  /\ \E r \in 1..Len(monthly_expense_stacked) :
       \E c \in DOMAIN monthly_expense_stacked[r] \ {"month"} :
         /\ SumAmounts(transactions,
              CellPostings(transactions, "expense", monthly_expense_stacked[r]["month"], c)) > 0
         /\ monthly_expense_stacked[r][c] > 0

(***************************************************************************)
(* Properties of the normalised postings                                   *)
(***************************************************************************)
\* the entries of a display string, those that ", " separates
RECURSIVE DisplayEntriesFrom(_, _)
DisplayEntriesFrom(s, cur) ==
  IF s = "" THEN <<cur>>
  ELSE IF Len(s) >= 2 /\ SubSeq(s, 1, 2) = ", "
       THEN <<cur>> \o DisplayEntriesFrom(SubSeq(s, 3, Len(s)), "")
       ELSE DisplayEntriesFrom(Tail(s), cur \o Head(s))

DisplayEntries(s) == IF s = "" THEN <<>> ELSE DisplayEntriesFrom(s, "")

\* the quantity the loader takes from a raw amount
QuantityOf(a) ==
  IF WellFormedQuantity(a.aquantity) THEN py_int(a.aquantity.d["floatingPoint"]).val ELSE 0

\* posting p has one number and one formatted entry per raw amount, each
\* pair from the raw amount at its position
AlignedWith(p, items) ==
  /\ Len(p.amounts_numeric) = Len(items)
  /\ Len(p.amounts) = Len(items)
  /\ Len(DisplayEntries(p.amounts_display)) = Len(p.amounts_numeric)
  /\ \A m \in 1..Len(items) :
       /\ p.amounts_numeric[m] = QuantityOf(items[m])
       /\ p.amounts[m] = amount_formatted(QuantityOf(items[m]), or_empty(items[m].acommodity))
       /\ DisplayEntries(p.amounts_display)[m] = p.amounts[m]

PostingsAlignedWith(tx, t) ==
  /\ tx.index = t.tindex /\ tx.date = t.tdate /\ tx.description = t.tdescription
  /\ Len(tx.postings) = Len(t.tpostings)
  /\ \A k \in 1..Len(t.tpostings) :
       AlignedWith(tx.postings[k], or_list(t.tpostings[k].pamount))

\* C17: in every posting a load stores, amounts_numeric, amounts and the
\* entries of amounts_display have one element per raw amount of the
\* posting, and the elements at one position come from the same raw amount.
C17_AmountsAligned ==
  [][(pc = "lt_with" /\ pc' = "idle" /\ outcome = "ok" /\ raised' = "")
       => \A i \in 1..Len(raw_txns) :
            \E j \in 1..Len(transactions') :
              PostingsAlignedWith(transactions'[j], raw_txns[i])]_vars

\* a load has stored a posting of two amounts, a posting of no amount and a
\* posting whose quantity was absent
C17_Witness ==
  /\ pc = "idle" /\ "transactions" \in requests /\ raised = ""
  /\ \E i \in 1..Len(transactions) : \E j \in 1..Len(transactions[i].postings) :
       Len(transactions[i].postings[j].amounts_numeric) = 2
  /\ \E i \in 1..Len(transactions) : \E j \in 1..Len(transactions[i].postings) :
       /\ transactions[i].postings[j].amounts_numeric = <<>>
       /\ transactions[i].postings[j].amounts_display = ""
  /\ \E i \in 1..Len(transactions) : \E j \in 1..Len(transactions[i].postings) :
       \E m \in 1..Len(transactions[i].postings[j].amounts_numeric) :
         /\ transactions[i].postings[j].amounts_numeric[m] = 0
         /\ transactions[i].postings[j].amounts[m] = "0 USD"

(***************************************************************************)
(* Properties of a load as a whole                                         *)
(***************************************************************************)
\* txs holds one entry per transaction of raw, and nothing else
OneEntryPerTransaction(txs, raw) ==
  /\ Len(txs) = Len(raw)
  /\ \E f \in [1..Len(raw) -> 1..Len(txs)] :
       /\ \A a, b \in 1..Len(raw) : a # b => f[a] # f[b]
       /\ \A i \in 1..Len(raw) : EntryOf(txs[f[i]], raw[i])

\* C18: a load of state.py's State that received a valid response leaves in
\* transactions one normalised entry per transaction of the response and
\* nothing else, whatever transactions held before the load.
C18_RebuiltWholesale ==
  [][(app = "hledger_reflex_app" /\ pc = "lt_with" /\ pc' = "idle" /\ outcome = "ok")
       => OneEntryPerTransaction(transactions', raw_txns)]_vars

\* a load that received a longer journal is about to replace the
\* transactions of an earlier load
C18_Witness ==
  /\ app = "hledger_reflex_app" /\ pc = "lt_with" /\ outcome = "ok"
  /\ transactions # <<>> /\ Len(raw_txns) > Len(transactions)

(***************************************************************************)
(* Properties of the commodity and of the order of the balance views       *)
(***************************************************************************)
\* posting a is visited before posting b: transactions from the last stored
\* to the first, the postings of one transaction in their listed order
VisitedBefore(a, b) == a[1] > b[1] \/ (a[1] = b[1] /\ a[2] < b[2])

\* the postings of group k in scope that have a commodity
WithCommodity(txs, selected, level, root_prefix, apply_month, k) ==
  {ij \in MatchingPostings(txs, selected, root_prefix, apply_month) :
     /\ KeyAt(txs, ij, level) = k
     /\ txs[ij[1]].postings[ij[2]].commodity # ""}

FirstWins(txs, selected, level, root_prefix, apply_month) ==
  LET data == aggregate_balances(txs, selected, level, root_prefix, apply_month)
  IN \A k \in DOMAIN data :
       LET cands == WithCommodity(txs, selected, level, root_prefix, apply_month, k)
       IN IF cands = {} THEN data[k][2] = ""
          ELSE \E a \in cands :
                 /\ \A b \in cands \ {a} : VisitedBefore(a, b)
                 /\ data[k][2] = txs[a[1]].postings[a[2]].commodity

\* C19: the commodity of a group is that of the first posting of the group
\* with a non-empty commodity in the order _aggregate_balances visits them,
\* transactions in the reverse of the stored order and postings in listed
\* order; it is "" when no posting of the group has a commodity.
C19_CommodityFirstWins ==
  \A root_prefix \in RootPrefixes : \A apply_month \in BOOLEAN :
    FirstWins(transactions, selected_month, nested_level, root_prefix, apply_month)

\* a liability group has postings with two different commodities in two
\* transactions and shows that of the transaction stored last, and an
\* expense group has no commodity
C19_Witness ==
  /\ \E k \in DOMAIN aggregate_balances(transactions, selected_month, nested_level,
                                        "liability", FALSE) :
       \E a, b \in WithCommodity(transactions, selected_month, nested_level,
                                 "liability", FALSE, k) :
         /\ a[1] > b[1]
         /\ transactions[a[1]].postings[a[2]].commodity
              # transactions[b[1]].postings[b[2]].commodity
         /\ aggregate_balances(transactions, selected_month, nested_level,
                               "liability", FALSE)[k][2]
              = transactions[a[1]].postings[a[2]].commodity
  /\ \E k \in DOMAIN aggregate_balances(transactions, selected_month, nested_level,
                                        "expense", TRUE) :
       aggregate_balances(transactions, selected_month, nested_level, "expense", TRUE)[k][2] = ""

\* rows is in descending order of balance and, at equal balance, in
\* ascending order of name
DescendingThenName(rows) ==
  \A i \in 1..(Len(rows) - 1) :
    \/ rows[i].balance > rows[i + 1].balance
    \/ rows[i].balance = rows[i + 1].balance /\ StrLess(rows[i].name, rows[i + 1].name)

\* C20: asset_balances and liability_balances are in descending order of
\* balance, groups of equal balance in ascending order of name.
C20_AssetsLiabilitiesOrdered ==
  DescendingThenName(asset_balances) /\ DescendingThenName(liability_balances)

\* the asset view has two groups of equal balance and one of another balance
C20_Witness ==
  /\ \E i \in 1..(Len(asset_balances) - 1) :
       asset_balances[i].balance = asset_balances[i + 1].balance
  /\ \E i \in 1..(Len(asset_balances) - 1) :
       asset_balances[i].balance > asset_balances[i + 1].balance
  /\ Len(liability_balances) >= 2

\* the raw sum of the group a row shows
RawOf(row, data) == data[row.name][1]

Magnitude(v) == IF v < 0 THEN 0 - v ELSE v

\* C21: income_balances is in ascending order of the raw balance, and
\* expense_balances is in descending order of the magnitude of the balance,
\* also when the raw balances of the groups have mixed signs.
C21_IncomeExpenseOrdered ==
  /\ \A i \in 1..(Len(income_balances) - 1) :
       RawOf(income_balances[i],
             aggregate_balances(transactions, selected_month, nested_level, "revenue", TRUE))
         <= RawOf(income_balances[i + 1],
                  aggregate_balances(transactions, selected_month, nested_level, "revenue", TRUE))
  /\ \A i \in 1..(Len(expense_balances) - 1) :
       Magnitude(expense_balances[i].balance) >= Magnitude(expense_balances[i + 1].balance)

\* the months YYYY-MM in which txs has a posting under the prefix
ObservedMonths(txs, root_prefix) ==
  {SubSeq(txs[ij[1]].date, 1, 7) :
     ij \in {x \in prefix_postings(txs, root_prefix) : Len(txs[x[1]].date) >= 7}}

OneRowPerMonth(txs, root_prefix) ==
  LET rows == monthly_stacked_of(txs, root_prefix)
  IN /\ {rows[r]["month"] : r \in 1..Len(rows)} = ObservedMonths(txs, root_prefix)
     /\ \A a, b \in 1..Len(rows) : a # b => rows[a]["month"] # rows[b]["month"]
     /\ \A r \in 1..(Len(rows) - 1) : StrLess(rows[r]["month"], rows[r + 1]["month"])

\* C22: monthly_expense_stacked and monthly_revenue_stacked have one row
\* per observed month (a month of a posting under the prefix), no month in
\* two rows, and the rows are in strictly ascending order of the month string.
C22_OneRowPerMonthAscending ==
  \A root_prefix \in SeriesPrefixes : OneRowPerMonth(transactions, root_prefix)

\* the expense series has two rows, and the transaction stored first is
\* the one of the later month
C22_Witness ==
  /\ Len(monthly_expense_stacked) = 2
  /\ Len(transactions) = 2
  /\ StrLess(SubSeq(transactions[2].date, 1, 7), SubSeq(transactions[1].date, 1, 7))
  /\ monthly_expense_stacked[1]["month"] = SubSeq(transactions[2].date, 1, 7)

(***************************************************************************)
(* The transaction list page: a session that has loaded a ledger and sets  *)
(* the month, the searches and the sort order.                             *)
(***************************************************************************)
NextFilters ==
  \/ \E month \in ViewMonthInputs : set_selected_month(month)
  \/ \E text \in TextInputs : set_search_description(text)
  \/ \E text \in TextInputs : set_search_account(text)
  \/ \E value \in SortInputs : set_sort_by(value)
  \/ clear_transaction_filters

SpecFilters == InitViews /\ [][NextFilters]_vars

(***************************************************************************)
(* Properties of the filtered transaction list                             *)
(***************************************************************************)
\* the amounts of all postings of t
AllAmounts(t) ==
  UNION {{t.postings[j].amounts_numeric[m] : m \in 1..Len(t.postings[j].amounts_numeric)} :
           j \in 1..Len(t.postings)}

\* the largest posting amount of t, 0 for a transaction without amounts
LargestAmount(t) ==
  IF AllAmounts(t) = {} THEN 0
  ELSE CHOOSE m \in AllAmounts(t) : \A x \in AllAmounts(t) : x <= m

\* C23: transactions_filtered is in descending order of index when sort_by
\* is "index"; when sort_by is "amount" it is in descending order of the
\* largest posting amount of the transaction, and among transactions of the
\* same largest amount the greater index comes first.
C23_FilteredOrdered ==
  /\ sort_by = "index" =>
       \A i \in 1..(Len(transactions_filtered) - 1) :
         transactions_filtered[i].index >= transactions_filtered[i + 1].index
  /\ sort_by = "amount" =>
       \A i \in 1..(Len(transactions_filtered) - 1) :
         \/ LargestAmount(transactions_filtered[i]) > LargestAmount(transactions_filtered[i + 1])
         \/ /\ LargestAmount(transactions_filtered[i]) = LargestAmount(transactions_filtered[i + 1])
            /\ transactions_filtered[i].index >= transactions_filtered[i + 1].index

(***************************************************************************)
(* The client used on its own: account transactions are requested from a   *)
(* client that stays open until it is closed.                              *)
(***************************************************************************)
AccountInputs == {"Asset:Cash", "Nowhere"}

\* client.get_account_transactions(account_name): the value returned is
\* kept in raw_txns, the exception that came out in outcome
get_account_transactions(account_name, mode) ==
  /\ pc = "idle"
  /\ LET r == HLedgerClient_get_account_transactions(app, Server(mode, ledger), account_name)
     IN /\ raw_txns' = r.val
        /\ outcome' = IF r.exc = "" THEN "ok" ELSE r.exc
  /\ client' = HLedgerClient_ensure_client(client)
  /\ requests' = requests \cup {"accounttransactions/" \o account_name}
  /\ UNCHANGED <<app, data_vars, names, pc, raised, ledger, filter_vars>>

\* client.close()
client_close ==
  /\ pc = "idle"
  /\ client' = HLedgerClient_close(client)
  /\ UNCHANGED <<app, data_vars, raw_txns, names, outcome, requests, pc, raised,
                 ledger, filter_vars>>

NextClient ==
  \/ \E account_name \in AccountInputs, mode \in Modes :
       get_account_transactions(account_name, mode)
  \/ client_close
  \/ journal_append

SpecClient == Init /\ [][NextClient]_vars

\* the body of the response decodes as JSON and is no list of transactions
DecodesButNotValid(r) ==
  r.exc = "" /\ Transactions_validate_dump(r.val).exc # ""

\* C24: when the body of the response to get_account_transactions decodes
\* but does not validate as a list of transactions, the call returns the
\* raw body and raises nothing.
C24_RawBodyWhenNotValidating ==
  [][\A account_name \in AccountInputs, mode \in Modes :
       (/\ get_account_transactions(account_name, mode)
        /\ DecodesButNotValid(HLedgerClient_get_json(Server(mode, ledger),
                                "accounttransactions/" \o account_name)))
       => (/\ outcome' = "ok"
           /\ raw_txns' = HLedgerClient_get_json(Server(mode, ledger),
                            "accounttransactions/" \o account_name).val)]_vars

\* a load_transactions call is between its yield and its end
LoadInProgress == pc \in {"lt_yield", "lt_with"}

\* C25: loading is True only while a load is in progress: whatever the
\* outcome of the load, malformed quantities included, no state is reached
\* in which loading is True and no load is running.
C25_LoadingNotStuck == loading => LoadInProgress

\* the integers written in decimal that are tried as levels
LevelRange == (0 - 20)..20

Clamped(n) == IF n < 1 THEN 1 ELSE IF n > 10 THEN 10 ELSE n

HasDigit(s) == \E i \in 1..Len(s) : IsDigit(CharAt(s, i))

\* what set_nested_level(level) has to leave in nested_level
LevelSetAsClaimed(level, new_level) ==
  /\ \A n \in LevelRange : Strip(level) = ToString(n) => new_level = Clamped(n)
  /\ ~HasDigit(level) => new_level = 1

\* C26: nested_level starts at 3 and is always an integer from 1 to 10;
\* set_nested_level clamps an integer input into that range and sets 1 for
\* a string that is no integer; no other operation changes nested_level.
C26_NestedLevelInRange ==
  /\ nested_level = 3
  /\ [][/\ nested_level' \in 1..10
        /\ nested_level' # nested_level =>
             \E level \in LevelInputs : set_nested_level(level)
        /\ \A level \in LevelInputs :
             set_nested_level(level) => LevelSetAsClaimed(level, nested_level')]_vars

C26_Witness == nested_level = 10 /\ transactions # <<>>

\* txs is in descending order of index
IndexDescending(txs) ==
  \A i \in 1..(Len(txs) - 1) : txs[i].index >= txs[i + 1].index

\* the step in which load_transactions runs from the end of the with block
\* to its end
LoadEnds == pc = "lt_with" /\ pc' = "idle"

\* C27: transactions is replaced in one step at the end of a load: the step
\* to the yield and the steps of the load before its last one leave
\* transactions as it was, and a step that changes transactions is the last
\* step of a load and leaves the complete list, one normalised entry per
\* fetched transaction, in descending order of index.
C27_ReplacedInOneStep ==
  [][/\ (LoadInProgress' /\ ~LoadEnds) => transactions' = transactions
     /\ transactions' # transactions =>
          /\ LoadEnds
          /\ OneEntryPerTransaction(transactions', raw_txns)
          /\ IndexDescending(transactions')]_vars

\* a reload has yielded with loading set, the list of the earlier load is
\* still in place and the journal has grown since
C27_Witness ==
  /\ pc = "lt_yield" /\ loading
  /\ transactions # <<>> /\ Len(ledger) > Len(transactions)

\* a step of load_transactions or of load_accountnames: every step that
\* starts, continues or ends a handler with more than one step
LoadStep == pc # "idle" \/ pc' # "idle"

\* C28: no step of load_transactions or load_accountnames changes
\* selected_month, search_description, search_account, nested_level or
\* sort_by, whether the load succeeds or fails.
C28_LoadsKeepFilters ==
  [][LoadStep =>
       /\ selected_month' = selected_month
       /\ search_description' = search_description
       /\ search_account' = search_account
       /\ nested_level' = nested_level
       /\ sort_by' = sort_by]_vars

\* a load that failed has emptied the list, and the month selected before
\* it is still selected although no transaction of that month is left
C28_Witness ==
  /\ pc = "idle" /\ ~loading
  /\ requests = {"transactions"} /\ outcome = "HLedgerAPIError"
  /\ transactions = <<>>
  /\ selected_month = "01" /\ available_months = <<>>

(***************************************************************************)
(* Conservation of the total by the grouping                               *)
(***************************************************************************)
\* the sum of the balances of the groups in keys
RECURSIVE TotalOfGroups(_, _)
TotalOfGroups(data, keys) ==
  IF keys = {} THEN 0
  ELSE LET k == CHOOSE x \in keys : TRUE
       IN data[k][1] + TotalOfGroups(data, keys \ {k})

\* the groups at this level add up to the total of the matching postings,
\* and every matching posting has its group among them
ConservesTotal(txs, matching, data, level) ==
  /\ TotalOfGroups(data, DOMAIN data) = SumAmounts(txs, matching)
  /\ \A ij \in matching :
       Cardinality({k \in DOMAIN data : k = KeyAt(txs, ij, level)}) = 1

\* C29: for the loaded transactions, every root prefix and the month filter
\* on or off, the balances of the groups of _aggregate_balances add up to
\* the sum of the amounts of the postings in scope under the prefix, at
\* every nested_level from 1 to 10, and each such posting belongs to
\* exactly one group.
C29_GroupingConservesTotal ==
  \A root_prefix \in RootPrefixes : \A apply_month \in BOOLEAN : \A level \in Levels :
    ConservesTotal(transactions,
                   MatchingPostings(transactions, selected_month, root_prefix, apply_month),
                   aggregate_balances(transactions, selected_month, level, root_prefix,
                                      apply_month),
                   level)

\* the number of asset groups at a level, with the month filter on
AssetGroups(level) ==
  Cardinality(DOMAIN aggregate_balances(transactions, selected_month, level, "asset", TRUE))

\* a month is selected that leaves asset postings out, and the asset
\* postings in scope, of total other than 0, form one group at level 1
\* and several groups at level 2
C29_Witness ==
  /\ selected_month # ""
  /\ MatchingPostings(transactions, selected_month, "asset", TRUE)
       # MatchingPostings(transactions, selected_month, "asset", FALSE)
  /\ SumAmounts(transactions,
                MatchingPostings(transactions, selected_month, "asset", TRUE)) # 0
  /\ AssetGroups(1) = 1
  /\ AssetGroups(2) > 1

(***************************************************************************)
(* Membership of the filtered transaction list                             *)
(***************************************************************************)
\* needle occurs in hay when both are put in lower case
ContainsIgnoringCase(hay, needle) ==
  \E i \in 1..(Len(hay) - Len(needle) + 1) :
    Lower(SubSeq(hay, i, i + Len(needle) - 1)) = Lower(needle)

\* tx passes every filter that is active
PassesFilters(tx) ==
  /\ selected_month # "" => Slice(tx.date, 5, 7) = selected_month
  /\ search_description # "" => ContainsIgnoringCase(tx.description, search_description)
  /\ search_account # "" =>
       \E j \in 1..Len(tx.postings) :
         ContainsIgnoringCase(tx.postings[j].account, search_account)

\* the positions of transactions that pass
Passing == {i \in 1..Len(transactions) : PassesFilters(transactions[i])}

\* shown lists the transactions at the positions, each once
ListsEachOnce(shown, positions) ==
  \E f \in [1..Len(shown) -> positions] :
    /\ \A a, b \in 1..Len(shown) : a # b => f[a] # f[b]
    /\ \A i \in positions : \E a \in 1..Len(shown) : f[a] = i
    /\ \A a \in 1..Len(shown) : shown[a] = transactions[f[a]]

\* C30: transactions_filtered holds exactly the transactions that pass every
\* active filter (month equal to characters 6-7 of the date, description and
\* some posting account containing the search text, case ignored), each
\* once; with no filter active it is a permutation of transactions.
C30_FilteredExactlyPassing ==
  /\ ListsEachOnce(transactions_filtered, Passing)
  /\ (selected_month = "" /\ search_description = "" /\ search_account = "")
       => ListsEachOnce(transactions_filtered, 1..Len(transactions))

\* the three filters are active, one transaction passes them and another
\* does not
C30_Witness ==
  /\ selected_month # "" /\ search_description # "" /\ search_account # ""
  /\ Len(transactions_filtered) = 1
  /\ Len(transactions) = 2

====
